---- MODULE Spec2Model ----
(***************************************************************************)
(* A model of gen_image.py: the command-line run of main() (argument       *)
(* parsing, dry run, provider selection, the adapter's generate call, the  *)
(* empty-result check and the output writer) and direct calls of the       *)
(* module's functions (the module is importable: main() runs only under    *)
(* the __main__ guard).                                                    *)
(*                                                                         *)
(* Text is a sequence of code points, bytes a sequence of 0..255.          *)
(***************************************************************************)
EXTENDS Integers, Sequences, FiniteSets, TLC

VARIABLES
    mode,        \* "run": a command-line run of main(); "unit": a direct call
    pc,          \* position in main() / in the direct call
    argv,        \* the command line
    env,         \* os.environ (the credential variables)
    installed,   \* the SDK packages importable in this interpreter
    args,        \* the argparse namespace
    provider,    \* the adapter instance built by get_provider
    api_key,     \* generate's local api_key
    constructed, \* adapters constructed so far, in order
    imported,    \* SDK modules imported so far
    clients,     \* SDK clients constructed so far: [sdk, api_key]
    netcalls,    \* requests issued so far: [sdk, model, modality/format]
    response,    \* the SDK's response object
    image_bytes, \* what generate returned
    dirs,        \* directories that exist
    mkdirs,      \* number of mkdir calls made
    files,       \* files written by this run: path -> content
    writes,      \* number of write_bytes calls that touched the filesystem
    stdout,      \* lines printed to stdout
    stderr,      \* lines printed to stderr
    exit_code,   \* the process exit status (-1 while running)
    call,        \* unit mode: the function called and its argument
    ret          \* unit mode: what it returned or raised

vars == <<mode, pc, argv, env, installed, args, provider, api_key, constructed,
          imported, clients, netcalls, response, image_bytes, dirs, mkdirs,
          files, writes, stdout, stderr, exit_code, call, ret>>

-----------------------------------------------------------------------------
(* Bounds of the model *)

MaxPathLen == 5     \* longest output path given to ensure_png_path directly
MaxParts == 2       \* longest parts list of a Gemini response
MaxTextLen == 4     \* longest inline text payload drawn character by character
MaxBytes == 3       \* longest binary payload

-----------------------------------------------------------------------------
(* Text and bytes *)

DotPng == <<46, 112, 110, 103>>                  \* ".png"

\* str.lower() on the code points the model uses (ASCII letters fold)
LowerChar(c) == IF c >= 65 /\ c <= 90 THEN c + 32 ELSE c
lower(s) == [i \in 1..Len(s) |-> LowerChar(s[i])]

endswith(s, suffix) ==
    /\ Len(s) >= Len(suffix)
    /\ SubSeq(s, Len(s) - Len(suffix) + 1, Len(s)) = suffix

\* str.encode("utf-8") for code points below U+0800
Utf8Char(c) == IF c < 128 THEN <<c>> ELSE <<192 + (c \div 64), 128 + (c % 64)>>
RECURSIVE encode_utf8(_)
encode_utf8(s) == IF s = <<>> THEN <<>> ELSE Utf8Char(Head(s)) \o encode_utf8(Tail(s))

SeqsUpTo(S, n) == UNION {[1..k -> S] : k \in 0..n}

-----------------------------------------------------------------------------
(* base64.b64decode(s) with its default validate=False, as the code calls   *)
(* it: characters outside the alphabet are discarded, a complete pad ends   *)
(* the input, and a dangling quantum raises binascii.Error (a ValueError).  *)
(* A str argument with a non-ASCII character raises ValueError.             *)

\* the value of a character of the base64 alphabet, -1 for any other
B64Index(c) ==
    IF c >= 65 /\ c <= 90 THEN c - 65             \* A-Z
    ELSE IF c >= 97 /\ c <= 122 THEN c - 71       \* a-z
    ELSE IF c >= 48 /\ c <= 57 THEN c + 4         \* 0-9
    ELSE IF c = 43 THEN 62                        \* +
    ELSE IF c = 47 THEN 63                        \* /
    ELSE -1

Returned(v) == [raised |-> FALSE, exc |-> "", v |-> v]
Raised(cls) == [raised |-> TRUE, exc |-> cls, v |-> <<>>]

RECURSIVE a2b_base64(_, _, _, _, _, _)
a2b_base64(s, i, quad_pos, leftchar, pads, out) ==
    IF i > Len(s)
    THEN IF quad_pos # 0 THEN Raised("ValueError") ELSE Returned(out)
    ELSE LET ch == s[i]
             v == B64Index(ch)
         IN IF ch = 61                                              \* "="
            THEN IF quad_pos >= 2 /\ quad_pos + pads + 1 >= 4
                 THEN Returned(out)
                 ELSE a2b_base64(s, i + 1, quad_pos, leftchar,
                                 IF quad_pos >= 2 THEN pads + 1 ELSE pads, out)
            ELSE IF v = -1
            THEN a2b_base64(s, i + 1, quad_pos, leftchar, pads, out)
            ELSE CASE quad_pos = 0 -> a2b_base64(s, i + 1, 1, v, 0, out)
                   [] quad_pos = 1 -> a2b_base64(s, i + 1, 2, v % 16, 0,
                                          Append(out, leftchar * 4 + (v \div 16)))
                   [] quad_pos = 2 -> a2b_base64(s, i + 1, 3, v % 4, 0,
                                          Append(out, leftchar * 16 + (v \div 4)))
                   [] quad_pos = 3 -> a2b_base64(s, i + 1, 0, 0, 0,
                                          Append(out, leftchar * 64 + v))

b64decode(s) ==
    IF \E i \in 1..Len(s) : s[i] >= 128
    THEN Raised("ValueError")
    ELSE a2b_base64(s, 1, 0, 0, 0, <<>>)

-----------------------------------------------------------------------------
(* Values: None, bytes and str share one shape, [t, v] *)

None == [t |-> "none", v |-> <<>>]
Bytes(b) == [t |-> "bytes", v |-> b]
Text(s) == [t |-> "str", v |-> s]

\* Python truthiness of None, bytes and str
Truthy(d) == d.t # "none" /\ Len(d.v) > 0

-----------------------------------------------------------------------------
(* ensure_png_path *)

\* mutant: the suffix is compared without lowering the path
ensure_png_path_case_sensitive(path_str) ==
    IF endswith(path_str, DotPng)
    THEN path_str
    ELSE path_str \o DotPng

ensure_png_path(path_str) ==
    IF endswith(lower(path_str), DotPng)
    THEN path_str
    ELSE path_str \o DotPng

-----------------------------------------------------------------------------
(* The Gemini response object, as _extract_image_bytes reads it:            *)
(*   response.parts, response.candidates[0].content.parts,                  *)
(*   part.inline_data.data.  An attribute that is None or missing is        *)
(*   some = FALSE / has_content = FALSE / has_inline = FALSE.               *)

NoneParts == [some |-> FALSE, v |-> <<>>]
SomeParts(ps) == [some |-> TRUE, v |-> ps]
Part(has_inline, data) == [has_inline |-> has_inline, data |-> data]
Candidate(has_content, parts) == [has_content |-> has_content, parts |-> parts]
NoneCandidates == [some |-> FALSE, v |-> <<>>]
SomeCandidates(cs) == [some |-> TRUE, v |-> cs]
GeminiResponse(parts, candidates) == [parts |-> parts, candidates |-> candidates]

\* mutant: a text payload is encoded as it is, never base64-decoded
PayloadUndecoded(data) ==
    IF data.t = "str" THEN Bytes(encode_utf8(data.v)) ELSE data

\* the payload of a part's non-empty inline data (lines 75-80)
Payload(data) ==
    IF data.t = "str"
    THEN LET r == b64decode(data.v)
         IN IF r.raised THEN Bytes(encode_utf8(data.v)) ELSE Bytes(r.v)
    ELSE data

\* the for loop over parts (lines 71-81)
RECURSIVE ScanParts(_, _)
ScanParts(parts, i) ==
    IF i > Len(parts)
    THEN None
    ELSE LET part == parts[i]
             data == IF part.has_inline THEN part.data ELSE None
         IN IF Truthy(data) THEN Payload(data) ELSE ScanParts(parts, i + 1)

\* mutant: only the top-level parts are read, candidates are never consulted
_extract_image_bytes_top_level_only(resp) ==
    ScanParts(IF resp.parts.some THEN resp.parts.v ELSE <<>>, 1)

_extract_image_bytes(resp) ==
    LET parts0 == resp.parts
        candidates == IF resp.candidates.some THEN resp.candidates.v ELSE <<>>
        parts1 == IF ~(parts0.some /\ Len(parts0.v) > 0)
                  THEN IF Len(candidates) > 0
                       THEN IF candidates[1].has_content
                            THEN candidates[1].parts
                            ELSE NoneParts
                       ELSE parts0
                  ELSE parts0
        parts == IF parts1.some THEN parts1.v ELSE <<>>
    IN ScanParts(parts, 1)

-----------------------------------------------------------------------------
(* Exceptions and the provider registry *)

Exc(cls, kind, about, valid) ==
    [cls |-> cls, kind |-> kind, about |-> about, valid |-> valid]
NoExc == Exc("", "", "", <<>>)

\* the keys of the providers dict, in insertion order (lines 117-120)
ProviderKeys == <<"gemini", "openai">>
ProviderClass(name) ==
    IF name = "gemini" THEN "GeminiProvider" ELSE "OpenAIProvider"

NoProvider == [cls |-> "", id |-> 0]

\* mutant: the registry maps each name to the other adapter
get_provider_swapped(name, n) ==
    IF ~(\E i \in 1..Len(ProviderKeys) : ProviderKeys[i] = name)
    THEN [raised |-> TRUE,
          exc |-> Exc("ValueError", "Unknown provider", name, ProviderKeys),
          v |-> NoProvider]
    ELSE [raised |-> FALSE, exc |-> NoExc,
          v |-> [cls |-> ProviderClass(IF name = "gemini" THEN "openai" ELSE "gemini"),
                 id |-> n + 1]]

\* get_provider(name), called when n adapters were constructed before:
\* raises ValueError or returns the (n+1)-th adapter instance
get_provider(name, n) ==
    IF ~(\E i \in 1..Len(ProviderKeys) : ProviderKeys[i] = name)
    THEN [raised |-> TRUE,
          exc |-> Exc("ValueError", "Unknown provider", name, ProviderKeys),
          v |-> NoProvider]
    ELSE [raised |-> FALSE, exc |-> NoExc,
          v |-> [cls |-> ProviderClass(name), id |-> n + 1]]

-----------------------------------------------------------------------------
(* The command line, the environment and the filesystem of a run *)

Unset == [set |-> FALSE, v |-> ""]
SetTo(v) == [set |-> TRUE, v |-> v]
EnvVars == {"GEMINI_API_KEY", "OPENAI_API_KEY", "GOOGLE_API_KEY"}
EnvValues(name) ==
    IF name = "GOOGLE_API_KEY"
    THEN {Unset, SetTo("google-key")}
    ELSE {Unset, SetTo(""), SetTo(IF name = "GEMINI_API_KEY" THEN "gemini-key" ELSE "openai-key")}

\* os.getenv(name): None when unset
getenv(e, name) == IF e[name].set THEN Text(e[name].v) ELSE None
\* a str read from the environment holds key names, not code points
TruthyKey(k) == k.t # "none" /\ k.v # ""

NoPath == [some |-> FALSE, v |-> <<>>]
SomePath(p) == [some |-> TRUE, v |-> p]
\* "img", "img.png", "x.PNG", "d/img"
OutPaths == { <<105, 109, 103>>, <<105, 109, 103, 46, 112, 110, 103>>,
              <<120, 46, 80, 78, 71>>, <<100, 47, 105, 109, 103>> }

NoModel == [given |-> FALSE, v |-> ""]
ModelValues == {NoModel, [given |-> TRUE, v |-> ""], [given |-> TRUE, v |-> "my-model"]}

Argvs ==
    [prompt : BOOLEAN,                         \* --prompt given
     out : {NoPath} \cup {SomePath(p) : p \in OutPaths},
     provider : {"", "gemini", "openai", "midjourney"},   \* "" = not given
     model : ModelValues,
     dry_run : BOOLEAN]

NoArgs == [prompt |-> "", out |-> <<>>, provider |-> "", model |-> NoModel,
           dry_run |-> FALSE]
NoArgv == [prompt |-> FALSE, out |-> NoPath, provider |-> "", model |-> NoModel,
           dry_run |-> FALSE]

Line(prefix, kind, about, valid, path) ==
    [prefix |-> prefix, kind |-> kind, about |-> about, valid |-> valid, path |-> path]

\* the directories out_path.parent.mkdir(parents=True) has to make: every
\* proper prefix of the path that ends before a "/"
SlashAt(p) == {i \in 1..Len(p) : p[i] = 47}
Ancestors(p) == {SubSeq(p, 1, i - 1) : i \in SlashAt(p)}

-----------------------------------------------------------------------------
(* parse_args, over the options it declares: argparse takes the options     *)
(* left to right; a --provider value outside choices is a usage error where *)
(* it stands, the required options are checked at the end, and a usage      *)
(* error prints to stderr and exits with status 2.                          *)

ProviderChoices == <<"gemini", "openai">>
InChoices(x) == \E i \in 1..Len(ProviderChoices) : ProviderChoices[i] = x

Parsed(a) == [exit |-> -1, line |-> Line("", "", "", <<>>, <<>>), args |-> a]
Exits(code, line) == [exit |-> code, line |-> line, args |-> NoArgs]

parse_args(av) ==
    LET bad == av.provider # "" /\ ~InChoices(av.provider)
        missing == (IF av.prompt THEN <<>> ELSE <<"--prompt">>)
                   \o (IF av.out.some THEN <<>> ELSE <<"--out">>)
    IN IF bad
       THEN Exits(2, Line("usage", "invalid choice", av.provider, ProviderChoices, <<>>))
       ELSE IF missing # <<>>
       THEN Exits(2, Line("usage", "required", "", missing, <<>>))
       ELSE Parsed([prompt |-> "x",
                    out |-> av.out.v,
                    provider |-> IF av.provider = "" THEN "gemini" ELSE av.provider,
                    model |-> av.model,
                    dry_run |-> av.dry_run])

-----------------------------------------------------------------------------
(* What the hosted services can answer *)

\* the service's base64 encoding of an image
B64Char(i) ==
    IF i < 26 THEN 65 + i
    ELSE IF i < 52 THEN 71 + i
    ELSE IF i < 62 THEN i - 4
    ELSE IF i = 62 THEN 43 ELSE 47
RECURSIVE b64encode(_)
b64encode(b) ==
    IF Len(b) = 0 THEN <<>>
    ELSE IF Len(b) = 1
    THEN <<B64Char(b[1] \div 4), B64Char((b[1] % 4) * 16), 61, 61>>
    ELSE IF Len(b) = 2
    THEN <<B64Char(b[1] \div 4), B64Char((b[1] % 4) * 16 + (b[2] \div 16)),
           B64Char((b[2] % 16) * 4), 61>>
    ELSE <<B64Char(b[1] \div 4), B64Char((b[1] % 4) * 16 + (b[2] \div 16)),
           B64Char((b[2] % 16) * 4 + (b[3] \div 64)), B64Char(b[3] % 64)>>
         \o b64encode(SubSeq(b, 4, Len(b)))

ImgA == <<137, 80>>
ImgB == <<255>>
ImgC == <<7>>

PartValues ==
    { Part(FALSE, None), Part(TRUE, None), Part(TRUE, Bytes(<<>>)),
      Part(TRUE, Text(<<>>)), Part(TRUE, Bytes(ImgA)), Part(TRUE, Text(b64encode(ImgB))) }

OptParts(n) == {NoneParts} \cup {SomeParts(ps) : ps \in SeqsUpTo(PartValues, n)}
CandidateValues(n) ==
    {Candidate(FALSE, NoneParts)} \cup {Candidate(TRUE, ps) : ps \in OptParts(n)}
\* candidates after the first
LaterCandidates ==
    { Candidate(FALSE, NoneParts),
      Candidate(TRUE, SomeParts(<<Part(TRUE, Bytes(ImgC))>>)) }
OptCandidates(n, more) ==
    {NoneCandidates, SomeCandidates(<<>>)}
    \cup {SomeCandidates(<<c>>) : c \in CandidateValues(n)}
    \cup {SomeCandidates(<<c, d>>) : c \in CandidateValues(n), d \in more}
GeminiResponses(n, more) ==
    {GeminiResponse(ps, cs) : ps \in OptParts(n), cs \in OptCandidates(n, more)}

\* responses of one part, carrying every payload within the bounds
ByteValues == {0, 137, 255}
TextChars == {81, 85, 61, 33, 233}              \* Q U = ! e-acute
Payloads ==
    {Bytes(b) : b \in SeqsUpTo(ByteValues, MaxBytes)}
    \cup {Text(t) : t \in SeqsUpTo(TextChars, MaxTextLen)}
    \cup {Text(b64encode(b)) : b \in SeqsUpTo(ByteValues, MaxBytes)}
PayloadResponses ==
    {GeminiResponse(SomeParts(<<Part(TRUE, d)>>), NoneCandidates) : d \in Payloads}

\* the OpenAI response: response.data, a list of items with b64_json
OpenAIItems ==
    { None, Text(<<>>), Text(<<61>>), Text(<<81>>), Text(b64encode(ImgA)),
      Text(b64encode(ImgB)) }
OpenAIResponses ==
    {<<>>} \cup {<<x>> : x \in OpenAIItems}
    \cup {<<x, Text(b64encode(ImgC))>> : x \in OpenAIItems}

\* what an SDK call (or constructor) may raise
SdkErrors == {"Exception", "ValueError", "ImportError"}

-----------------------------------------------------------------------------
(* Initial states *)

NoCall == [fn |-> "", arg |-> <<>>]
NoRet == [raised |-> FALSE, exc |-> NoExc, v |-> <<>>]
Sdks == {"google-genai", "openai"}
Envs == {e \in [EnvVars -> UNION {EnvValues(n) : n \in EnvVars}] :
            \A n \in EnvVars : e[n] \in EnvValues(n)}
FullEnv == [n \in EnvVars |-> SetTo("key")]
\* "." and "a", and the letters of "png" in both cases
PathChars == {46, 97, 112, 80, 110, 78, 103, 71}
ProviderNames == {"gemini", "openai", "midjourney", "Gemini", "", "gemini "}

Fresh ==
    /\ args = NoArgs
    /\ provider = NoProvider
    /\ api_key = None
    /\ constructed = <<>>
    /\ imported = {}
    /\ clients = <<>>
    /\ netcalls = <<>>
    /\ response = <<>>
    /\ image_bytes = None
    /\ mkdirs = 0
    /\ files = <<>>
    /\ writes = 0
    /\ stdout = <<>>
    /\ stderr = <<>>
    /\ exit_code = -1
    /\ ret = NoRet

\* a command-line run: line 199, raise SystemExit(main())
InitRun ==
    /\ mode = "run"
    /\ pc = "start"
    /\ argv \in Argvs
    /\ env \in Envs
    /\ installed \in SUBSET Sdks
    /\ dirs \in {{}, {<<100>>}}
    /\ call = NoCall
    /\ Fresh

\* the module imported and one of its functions called
InitUnit ==
    /\ mode = "unit"
    /\ pc = "unit_call"
    /\ argv = NoArgv
    /\ env = FullEnv
    /\ installed = Sdks
    /\ dirs = {}
    /\ \/ \E p \in SeqsUpTo(PathChars, MaxPathLen) :
             call = [fn |-> "ensure_png_path", arg |-> p]
       \/ \E r \in GeminiResponses(MaxParts, LaterCandidates) \cup PayloadResponses :
             call = [fn |-> "_extract_image_bytes", arg |-> r]
       \/ \E n \in ProviderNames :
             call = [fn |-> "get_provider", arg |-> n]
    /\ Fresh

Init == InitRun \/ InitUnit

-----------------------------------------------------------------------------
(* main(): lines 158-195 *)

\* the except clause that catches an exception of class cls (lines 185-195)
HandlerPrefix(cls) ==
    IF cls = "ImportError" THEN "Dependency Error"
    ELSE IF cls = "ValueError" THEN "Configuration Error"
    ELSE "Runtime Error"

\* mutant: the except clauses report the error and fall off the end of main
FailReturnsNone(e) ==
    /\ stderr' = Append(stderr, Line(HandlerPrefix(e.cls), e.kind, e.about, e.valid, <<>>))
    /\ exit_code' = 0
    /\ pc' = "exited"

\* an exception raised inside main's try block: reported, return 1
Fail(e) ==
    /\ stderr' = Append(stderr, Line(HandlerPrefix(e.cls), e.kind, e.about, e.valid, <<>>))
    /\ exit_code' = 1
    /\ pc' = "exited"

Goto(label) ==
    /\ pc' = label
    /\ UNCHANGED <<stderr, exit_code>>

ParseArgs ==
    /\ mode = "run" /\ pc = "start"
    /\ LET r == parse_args(argv)
       IN IF r.exit = -1
          THEN /\ args' = r.args
               /\ pc' = "parsed"
               /\ UNCHANGED <<stdout, stderr, exit_code>>
          ELSE /\ args' = args
               /\ pc' = "exited"
               /\ exit_code' = r.exit
               /\ stderr' = Append(stderr, r.line)
               /\ stdout' = stdout
    /\ UNCHANGED <<mkdirs, mode, argv, env, installed, provider, api_key, constructed, imported,
                   clients, netcalls, response, image_bytes, dirs, files, writes,
                   call, ret>>

DryRun ==
    /\ mode = "run" /\ pc = "parsed"
    /\ args.dry_run
    /\ stdout' = Append(stdout, Line("Dry run OK", args.provider, args.model.v, <<>>, <<>>))
    /\ exit_code' = 0
    /\ pc' = "exited"
    /\ UNCHANGED <<mkdirs, mode, argv, env, installed, args, provider, api_key, constructed,
                   imported, clients, netcalls, response, image_bytes, dirs, files,
                   writes, stderr, call, ret>>

\* mutant: the dry-run flag is not consulted before the provider is built
GetProviderIgnoringDryRun ==
    /\ mode = "run" /\ pc = "parsed"
    /\ LET r == get_provider(args.provider, Len(constructed))
       IN /\ provider' = r.v
          /\ constructed' = Append(constructed, r.v)
          /\ stdout' = Append(stdout, Line("Generating image", args.provider,
                                           args.model.v, <<>>, <<>>))
          /\ Goto("generate")
    /\ UNCHANGED <<mkdirs, mode, argv, env, installed, args, api_key, imported, clients,
                   netcalls, response, image_bytes, dirs, files, writes, call, ret>>

GetProvider ==
    /\ mode = "run" /\ pc = "parsed"
    /\ ~args.dry_run
    /\ LET r == get_provider(args.provider, Len(constructed))
       IN IF r.raised
          THEN /\ Fail(r.exc)
               /\ UNCHANGED <<provider, constructed, stdout>>
          ELSE /\ provider' = r.v
               /\ constructed' = Append(constructed, r.v)
               /\ stdout' = Append(stdout, Line("Generating image", args.provider,
                                                args.model.v, <<>>, <<>>))
               /\ Goto("generate")
    /\ UNCHANGED <<mkdirs, mode, argv, env, installed, args, api_key, imported, clients,
                   netcalls, response, image_bytes, dirs, files, writes, call, ret>>

-----------------------------------------------------------------------------
(* GeminiProvider.generate: lines 38-60 *)

TargetModel(model, default) == IF model.given /\ model.v # "" THEN model.v ELSE default

\* mutant: the credential is looked up but never checked
GeminiReadKeyUnchecked ==
    /\ mode = "run" /\ pc = "generate" /\ provider.cls = "GeminiProvider"
    /\ api_key' = getenv(env, "GEMINI_API_KEY")
    /\ Goto("import")
    /\ UNCHANGED <<mkdirs, mode, argv, env, installed, args, provider, constructed, imported,
                   clients, netcalls, response, image_bytes, dirs, files, writes,
                   stdout, call, ret>>

\* lines 39-41
GeminiReadKey ==
    /\ mode = "run" /\ pc = "generate" /\ provider.cls = "GeminiProvider"
    /\ api_key' = getenv(env, "GEMINI_API_KEY")
    /\ IF ~TruthyKey(api_key')
       THEN Fail(Exc("ValueError", "Environment variable is not set", "GEMINI_API_KEY", <<>>))
       ELSE Goto("import")
    /\ UNCHANGED <<mkdirs, mode, argv, env, installed, args, provider, constructed, imported,
                   clients, netcalls, response, image_bytes, dirs, files, writes,
                   stdout, call, ret>>

\* lines 43-47
GeminiImport ==
    /\ mode = "run" /\ pc = "import" /\ provider.cls = "GeminiProvider"
    /\ IF "google-genai" \notin installed
       THEN /\ Fail(Exc("ImportError", "is not installed", "google-genai", <<>>))
            /\ imported' = imported
       ELSE /\ imported' = imported \cup {"google-genai"}
            /\ Goto("client")
    /\ UNCHANGED <<mkdirs, mode, argv, env, installed, args, provider, api_key, constructed,
                   clients, netcalls, response, image_bytes, dirs, files, writes,
                   stdout, call, ret>>

\* mutant: a competing credential variable is popped from os.environ first
GeminiClientClearingEnv ==
    /\ mode = "run" /\ pc = "client" /\ provider.cls = "GeminiProvider"
    /\ env' = [env EXCEPT !["GOOGLE_API_KEY"] = Unset]
    /\ clients' = Append(clients, [sdk |-> "google-genai", api_key |-> api_key.v])
    /\ Goto("call")
    /\ UNCHANGED <<mkdirs, mode, argv, installed, args, provider, api_key, constructed,
                   imported, netcalls, response, image_bytes, dirs, files, writes,
                   stdout, call, ret>>

\* line 49: the constructor returns a client or raises
GeminiClient ==
    /\ mode = "run" /\ pc = "client" /\ provider.cls = "GeminiProvider"
    /\ \/ /\ clients' = Append(clients, [sdk |-> "google-genai", api_key |-> api_key.v])
          /\ Goto("call")
       \/ /\ \E c \in SdkErrors : Fail(Exc(c, "sdk", "google-genai", <<>>))
          /\ clients' = clients
    /\ UNCHANGED <<mkdirs, mode, argv, env, installed, args, provider, api_key, constructed,
                   imported, netcalls, response, image_bytes, dirs, files, writes,
                   stdout, call, ret>>

\* lines 52-58: the one request; the SDK returns a response or raises
\* (each request is recorded with the environment it was issued under)
GeminiCall ==
    /\ mode = "run" /\ pc = "call" /\ provider.cls = "GeminiProvider"
    /\ netcalls' = Append(netcalls,
                     [sdk |-> "google-genai",
                      model |-> TargetModel(args.model, "gemini-3-pro-image-preview"),
                      format |-> "IMAGE", env |-> env])
    /\ \/ /\ \E r \in GeminiResponses(1, {}) : response' = r
          /\ Goto("extract")
       \/ /\ \E c \in SdkErrors : Fail(Exc(c, "sdk", "google-genai", <<>>))
          /\ response' = response
    /\ UNCHANGED <<mkdirs, mode, argv, env, installed, args, provider, api_key, constructed,
                   imported, clients, image_bytes, dirs, files, writes, stdout,
                   call, ret>>

\* line 60
GeminiExtract ==
    /\ mode = "run" /\ pc = "extract" /\ provider.cls = "GeminiProvider"
    /\ image_bytes' = _extract_image_bytes(response)
    /\ Goto("check")
    /\ UNCHANGED <<mkdirs, mode, argv, env, installed, args, provider, api_key, constructed,
                   imported, clients, netcalls, response, dirs, files, writes, stdout,
                   call, ret>>

-----------------------------------------------------------------------------
(* OpenAIProvider.generate: lines 87-112 *)

\* lines 88-90
OpenAIReadKey ==
    /\ mode = "run" /\ pc = "generate" /\ provider.cls = "OpenAIProvider"
    /\ api_key' = getenv(env, "OPENAI_API_KEY")
    /\ IF ~TruthyKey(api_key')
       THEN Fail(Exc("ValueError", "Environment variable is not set", "OPENAI_API_KEY", <<>>))
       ELSE Goto("import")
    /\ UNCHANGED <<mkdirs, mode, argv, env, installed, args, provider, constructed, imported,
                   clients, netcalls, response, image_bytes, dirs, files, writes,
                   stdout, call, ret>>

\* lines 92-95
OpenAIImport ==
    /\ mode = "run" /\ pc = "import" /\ provider.cls = "OpenAIProvider"
    /\ IF "openai" \notin installed
       THEN /\ Fail(Exc("ImportError", "is not installed", "openai", <<>>))
            /\ imported' = imported
       ELSE /\ imported' = imported \cup {"openai"}
            /\ Goto("client")
    /\ UNCHANGED <<mkdirs, mode, argv, env, installed, args, provider, api_key, constructed,
                   clients, netcalls, response, image_bytes, dirs, files, writes,
                   stdout, call, ret>>

\* line 97
OpenAIClient ==
    /\ mode = "run" /\ pc = "client" /\ provider.cls = "OpenAIProvider"
    /\ \/ /\ clients' = Append(clients, [sdk |-> "openai", api_key |-> api_key.v])
          /\ Goto("call")
       \/ /\ \E c \in SdkErrors : Fail(Exc(c, "sdk", "openai", <<>>))
          /\ clients' = clients
    /\ UNCHANGED <<mkdirs, mode, argv, env, installed, args, provider, api_key, constructed,
                   imported, netcalls, response, image_bytes, dirs, files, writes,
                   stdout, call, ret>>

\* lines 99-109
OpenAICall ==
    /\ mode = "run" /\ pc = "call" /\ provider.cls = "OpenAIProvider"
    /\ netcalls' = Append(netcalls,
                     [sdk |-> "openai",
                      model |-> TargetModel(args.model, "dall-e-3"),
                      format |-> "b64_json", env |-> env])
    /\ \/ /\ \E r \in OpenAIResponses : response' = r
          /\ Goto("extract")
       \/ /\ \E c \in SdkErrors : Fail(Exc(c, "sdk", "openai", <<>>))
          /\ response' = response
    /\ UNCHANGED <<mkdirs, mode, argv, env, installed, args, provider, api_key, constructed,
                   imported, clients, image_bytes, dirs, files, writes, stdout,
                   call, ret>>

\* lines 111-112: response.data[0].b64_json, base64-decoded
OpenAIDecode ==
    /\ mode = "run" /\ pc = "extract" /\ provider.cls = "OpenAIProvider"
    /\ IF Len(response) = 0
       THEN Fail(Exc("IndexError", "list index out of range", "", <<>>))
            /\ image_bytes' = image_bytes
       ELSE IF response[1].t = "none"
       THEN Fail(Exc("TypeError", "argument should be bytes-like or ASCII string", "", <<>>))
            /\ image_bytes' = image_bytes
       ELSE LET r == b64decode(response[1].v)
            IN IF r.raised
               THEN Fail(Exc(r.exc, "base64", "", <<>>)) /\ image_bytes' = image_bytes
               ELSE image_bytes' = Bytes(r.v) /\ Goto("check")
    /\ UNCHANGED <<mkdirs, mode, argv, env, installed, args, provider, api_key, constructed,
                   imported, clients, netcalls, response, dirs, files, writes, stdout,
                   call, ret>>

-----------------------------------------------------------------------------
(* main(), after generate returned: lines 174-183 *)

\* mutant: the result is compared with None only, so empty bytes pass
CheckImageNoneOnly ==
    /\ mode = "run" /\ pc = "check"
    /\ IF image_bytes.t = "none"
       THEN /\ stderr' = Append(stderr, Line("Error", "No image data returned", "", <<>>, <<>>))
            /\ exit_code' = 1
            /\ pc' = "exited"
       ELSE Goto("mkdir")
    /\ UNCHANGED <<mkdirs, mode, argv, env, installed, args, provider, api_key, constructed,
                   imported, clients, netcalls, response, image_bytes, dirs, files,
                   writes, stdout, call, ret>>

\* lines 174-176
CheckImage ==
    /\ mode = "run" /\ pc = "check"
    /\ IF ~Truthy(image_bytes)
       THEN /\ stderr' = Append(stderr, Line("Error", "No image data returned", "", <<>>, <<>>))
            /\ exit_code' = 1
            /\ pc' = "exited"
       ELSE Goto("mkdir")
    /\ UNCHANGED <<mkdirs, mode, argv, env, installed, args, provider, api_key, constructed,
                   imported, clients, netcalls, response, image_bytes, dirs, files,
                   writes, stdout, call, ret>>

\* lines 178-179: out_path.parent.mkdir(parents=True, exist_ok=True); an OSError
\* leaves the directories made so far
Mkdir ==
    /\ mode = "run" /\ pc = "mkdir"
    /\ mkdirs' = mkdirs + 1
    /\ LET out_path == ensure_png_path(args.out)
       IN \/ /\ dirs' = dirs \cup Ancestors(out_path)
             /\ Goto("write")
          \/ /\ \E made \in SUBSET Ancestors(out_path) :
                   /\ made # Ancestors(out_path) \/ made = {}
                   /\ \A d \in made : \A a \in Ancestors(out_path) :
                         Len(a) < Len(d) => a \in made
                   /\ dirs' = dirs \cup made
             /\ Fail(Exc("OSError", "mkdir", "", <<>>))
    /\ UNCHANGED <<mode, argv, env, installed, args, provider, api_key, constructed,
                   imported, clients, netcalls, response, image_bytes, files, writes,
                   stdout, call, ret>>

\* mutant: the file is written at the path as given, not the normalized one
WriteBytesAtGivenPath ==
    /\ mode = "run" /\ pc = "write"
    /\ files' = Append(files, [path |-> args.out, content |-> image_bytes.v])
    /\ writes' = writes + 1
    /\ stdout' = Append(stdout, Line("Saved image", "", "", <<>>, args.out))
    /\ exit_code' = 0
    /\ pc' = "exited"
    /\ stderr' = stderr
    /\ UNCHANGED <<mkdirs, mode, argv, env, installed, args, provider, api_key, constructed,
                   imported, clients, netcalls, response, image_bytes, dirs, call, ret>>

\* lines 180-183: write_bytes opens the file for writing and writes; an OSError
\* on open leaves no file, an OSError while writing leaves a truncated one
WriteBytes ==
    /\ mode = "run" /\ pc = "write"
    /\ LET out_path == ensure_png_path(args.out)
       IN \/ /\ files' = Append(files, [path |-> out_path, content |-> image_bytes.v])
             /\ writes' = writes + 1
             /\ stdout' = Append(stdout, Line("Saved image", "", "", <<>>, out_path))
             /\ exit_code' = 0
             /\ pc' = "exited"
             /\ stderr' = stderr
          \/ /\ UNCHANGED <<files, writes, stdout>>
             /\ Fail(Exc("OSError", "open", "", <<>>))
          \/ /\ \E k \in 0..(Len(image_bytes.v) - 1) :
                   files' = Append(files, [path |-> out_path,
                                           content |-> SubSeq(image_bytes.v, 1, k)])
             /\ writes' = writes + 1
             /\ stdout' = stdout
             /\ Fail(Exc("OSError", "write", "", <<>>))
    /\ UNCHANGED <<mkdirs, mode, argv, env, installed, args, provider, api_key, constructed,
                   imported, clients, netcalls, response, image_bytes, dirs, call, ret>>

-----------------------------------------------------------------------------
(* Direct calls of the module's functions *)

UnitEnsurePngPath ==
    /\ mode = "unit" /\ pc = "unit_call" /\ call.fn = "ensure_png_path"
    /\ ret' = [raised |-> FALSE, exc |-> NoExc, v |-> ensure_png_path(call.arg)]
    /\ pc' = "unit_ret"
    /\ UNCHANGED <<mkdirs, mode, argv, env, installed, args, provider, api_key, constructed,
                   imported, clients, netcalls, response, image_bytes, dirs, files,
                   writes, stdout, stderr, exit_code, call>>

UnitExtractImageBytes ==
    /\ mode = "unit" /\ pc = "unit_call" /\ call.fn = "_extract_image_bytes"
    /\ ret' = [raised |-> FALSE, exc |-> NoExc, v |-> _extract_image_bytes(call.arg)]
    /\ pc' = "unit_ret"
    /\ UNCHANGED <<mkdirs, mode, argv, env, installed, args, provider, api_key, constructed,
                   imported, clients, netcalls, response, image_bytes, dirs, files,
                   writes, stdout, stderr, exit_code, call>>

UnitGetProvider ==
    /\ mode = "unit" /\ pc = "unit_call" /\ call.fn = "get_provider"
    /\ ret' = get_provider(call.arg, Len(constructed))
    /\ constructed' = IF ret'.raised THEN constructed ELSE Append(constructed, ret'.v)
    /\ pc' = "unit_ret"
    /\ UNCHANGED <<mkdirs, mode, argv, env, installed, args, provider, api_key, imported,
                   clients, netcalls, response, image_bytes, dirs, files, writes,
                   stdout, stderr, exit_code, call>>

-----------------------------------------------------------------------------

Next ==
    \/ ParseArgs
    \/ DryRun
    \/ GetProvider
    \/ GeminiReadKey
    \/ GeminiImport
    \/ GeminiClient
    \/ GeminiCall
    \/ GeminiExtract
    \/ OpenAIReadKey
    \/ OpenAIImport
    \/ OpenAIClient
    \/ OpenAICall
    \/ OpenAIDecode
    \/ CheckImage
    \/ Mkdir
    \/ WriteBytes
    \/ UnitEnsurePngPath
    \/ UnitExtractImageBytes
    \/ UnitGetProvider

Spec == Init /\ [][Next]_vars

-----------------------------------------------------------------------------
(* Properties *)

\* nothing was built, imported, called or written
NoActivity ==
    /\ provider = NoProvider
    /\ constructed = <<>>
    /\ imported = {}
    /\ clients = <<>>
    /\ netcalls = <<>>
    /\ mkdirs = 0
    /\ writes = 0
    /\ files = <<>>

CredVar(cls) == IF cls = "GeminiProvider" THEN "GEMINI_API_KEY" ELSE "OPENAI_API_KEY"
KeyMissing(name) == ~env[name].set \/ env[name].v = ""
ValidProviderGiven == argv.provider \in {"", "gemini", "openai"}
RequiredGiven == argv.prompt /\ argv.out.some

C2_ExitZeroOrOne ==
    (mode = "run" /\ pc = "exited" /\ RequiredGiven)
    => exit_code = (IF stderr = <<>> THEN 0 ELSE 1)

\* C2, amended: a finished run exits 0 on success (dry run, or the image
\* saved), 2 when argparse rejects the command line (a --provider value
\* outside the choices, a missing --prompt or --out), and 1 on every failure
\* after the arguments parsed; no other status occurs.
C2_ExitCodes ==
    /\ (mode = "run" /\ pc # "exited") => exit_code = -1
    /\ (mode = "run" /\ pc = "exited")
       => /\ exit_code \in {0, 1, 2}
          /\ exit_code = 2 <=> (~ValidProviderGiven \/ ~RequiredGiven)
          /\ exit_code = 2 => /\ args = NoArgs
                              /\ Len(stderr) = 1 /\ stderr[1].prefix = "usage"
          /\ exit_code = 0
             <=> /\ stderr = <<>>
                 /\ \/ argv.dry_run
                    \/ Len(files) = 1 /\ files[1].content = image_bytes.v
          /\ exit_code = 1
             <=> /\ args # NoArgs
                 /\ Len(stderr) = 1
                 /\ stderr[1].prefix \in {"Dependency Error", "Configuration Error",
                                          "Runtime Error", "Error"}

C2_Witness ==
    /\ mode = "run" /\ pc = "exited" /\ exit_code = 2
    /\ argv.provider = "midjourney" /\ RequiredGiven
    /\ stderr[1].kind = "invalid choice"

\* C3: once the selected adapter's generate has read its credential variable
\* and found it unset or empty, the run has ended with status 1 and the
\* configuration error naming that variable, with no SDK imported, no client
\* made, no request issued, no directory made and no file written; and when
\* the selected adapter's variable is set, no run reports a variable as not
\* set, whatever the other adapter's variable is.
C3_MissingCredentialFailsFirst ==
    (mode = "run" /\ provider # NoProvider /\ pc # "generate")
    => IF KeyMissing(CredVar(provider.cls))
       THEN /\ pc = "exited" /\ exit_code = 1
            /\ stderr = << Line("Configuration Error", "Environment variable is not set",
                                CredVar(provider.cls), <<>>, <<>>) >>
            /\ imported = {} /\ clients = <<>> /\ netcalls = <<>>
            /\ mkdirs = 0 /\ writes = 0 /\ files = <<>>
       ELSE \A i \in 1..Len(stderr) : stderr[i].kind # "Environment variable is not set"

C3_Witness ==
    /\ mode = "run" /\ pc = "exited" /\ exit_code = 1
    /\ provider.cls = "GeminiProvider"
    /\ env["GEMINI_API_KEY"] = SetTo("") /\ env["OPENAI_API_KEY"].set
    /\ "google-genai" \in installed
    /\ stderr[1].about = "GEMINI_API_KEY"

\* C4: a --provider value outside {"gemini", "openai"} ends the run with a
\* nonzero status and one error that names the value and lists the valid set,
\* with nothing built, imported, called or written; get_provider(name) raises
\* such an error for a name outside the set, and for a name in the set returns
\* a newly constructed adapter of the matching variant and changes nothing else.
C4_UnknownProviderRejected ==
    /\ (mode = "run" /\ ~ValidProviderGiven /\ pc # "start")
       => /\ pc = "exited" /\ exit_code # 0
          /\ NoActivity
          /\ Len(stderr) = 1
          /\ stderr[1].kind = "invalid choice"
          /\ stderr[1].about = argv.provider
          /\ stderr[1].valid = <<"gemini", "openai">>
    /\ (mode = "run" /\ provider # NoProvider)
       => /\ provider.cls = (IF args.provider = "gemini" THEN "GeminiProvider"
                             ELSE "OpenAIProvider")
          /\ args.provider \in {"gemini", "openai"}
          /\ constructed = <<provider>>
    /\ (mode = "unit" /\ pc = "unit_ret" /\ call.fn = "get_provider")
       => /\ IF call.arg \in {"gemini", "openai"}
             THEN /\ ~ret.raised
                  /\ ret.v.cls = (IF call.arg = "gemini" THEN "GeminiProvider"
                                  ELSE "OpenAIProvider")
                  /\ constructed = <<ret.v>>
             ELSE /\ ret.raised
                  /\ ret.exc.cls = "ValueError"
                  /\ ret.exc.kind = "Unknown provider"
                  /\ ret.exc.about = call.arg
                  /\ ret.exc.valid = <<"gemini", "openai">>
                  /\ constructed = <<>>
          /\ env = FullEnv /\ imported = {} /\ clients = <<>> /\ netcalls = <<>>
          /\ mkdirs = 0 /\ writes = 0 /\ files = <<>> /\ dirs = {}
          /\ stdout = <<>> /\ stderr = <<>>

C4_Witness ==
    /\ mode = "unit" /\ pc = "unit_ret" /\ call.fn = "get_provider"
    /\ call.arg = "Gemini"
    /\ ret.raised /\ ret.exc.about = "Gemini"

\* C5 as stated: when GeminiProvider issues its request, a competing
\* credential variable has been cleared from the process environment.
C5_CompetingCredentialCleared ==
    \A i \in 1..Len(netcalls) :
        netcalls[i].sdk = "google-genai" => ~netcalls[i].env["GOOGLE_API_KEY"].set

\* C5, amended: GeminiProvider.generate never changes the process
\* environment: a competing credential variable that is set is still set when
\* the request is issued and afterwards, and the intended key reaches the SDK
\* as the api_key argument of the client constructor.
C5_EnvironmentNeverMutated ==
    /\ [][env' = env]_vars
    /\ [](\A i \in 1..Len(netcalls) :
            /\ netcalls[i].env = env
            /\ netcalls[i].sdk = "google-genai"
               => /\ Len(clients) = 1
                  /\ clients[1].api_key = env["GEMINI_API_KEY"].v
                  /\ clients[1].api_key # "")

C5_Witness ==
    /\ mode = "run" /\ pc = "exited" /\ exit_code = 0
    /\ provider.cls = "GeminiProvider"
    /\ Len(netcalls) = 1
    /\ netcalls[1].env["GOOGLE_API_KEY"] = SetTo("google-key")
    /\ env["GOOGLE_API_KEY"] = SetTo("google-key")

-----------------------------------------------------------------------------
(* The extraction policy, stated over the response *)

Min(S) == CHOOSE x \in S : \A y \in S : x <= y
TopParts(r) == IF r.parts.some THEN r.parts.v ELSE <<>>
PartsOf(c) == IF c.has_content /\ c.parts.some THEN c.parts.v ELSE <<>>
CandidatesOf(r) == IF r.candidates.some THEN r.candidates.v ELSE <<>>
FirstCandidateParts(r) ==
    IF Len(CandidatesOf(r)) > 0 THEN PartsOf(CandidatesOf(r)[1]) ELSE <<>>
\* the list the policy scans: the top-level one when non-empty
ChosenParts(r) == IF Len(TopParts(r)) > 0 THEN TopParts(r) ELSE FirstCandidateParts(r)
CarriesImage(part) ==
    part.has_inline /\ part.data.t \in {"bytes", "str"} /\ part.data.v # <<>>
ImageIndexes(ps) == {i \in 1..Len(ps) : CarriesImage(ps[i])}
NoImageAnywhere(r) ==
    /\ ImageIndexes(TopParts(r)) = {}
    /\ \A k \in 1..Len(CandidatesOf(r)) : ImageIndexes(PartsOf(CandidatesOf(r)[k])) = {}

ExtractReturned == mode = "unit" /\ pc = "unit_ret" /\ call.fn = "_extract_image_bytes"

\* C6: _extract_image_bytes scans the top-level parts when that list is
\* present and non-empty and otherwise the parts of candidates[0].content, and
\* returns the payload of the first part of that list whose inline data is
\* non-empty, skipping parts without inline data or with empty data; it returns
\* None, and raises nothing, when the scanned list has no such part, in
\* particular when no part of the response carries image data.
C6_ExtractionPolicy ==
    ExtractReturned
    => LET ps == ChosenParts(call.arg)
           idx == ImageIndexes(ps)
       IN /\ ~ret.raised
          /\ IF idx = {}
             THEN ret.v = None
             ELSE ret.v = Payload(ps[Min(idx)].data)
          /\ NoImageAnywhere(call.arg) => ret.v = None

C6_Witness ==
    /\ ExtractReturned
    /\ call.arg.parts = SomeParts(<<>>)
    /\ call.arg.candidates.some
    /\ Len(call.arg.candidates.v) = 2
    /\ call.arg.candidates.v[1].parts
         = SomeParts(<< Part(TRUE, Bytes(<<>>)), Part(TRUE, Bytes(<<137, 80>>)) >>)
    /\ call.arg.candidates.v[2].has_content
    /\ ret.v = Bytes(<<137, 80>>)

\* C7: for the first part with non-empty inline data, bytes are returned
\* unchanged; text that is the base64 encoding of a byte string B yields
\* exactly B; text whose decoding fails yields, without an error, the UTF-8
\* bytes of the text.
C7_PayloadDecoding ==
    (ExtractReturned /\ ImageIndexes(ChosenParts(call.arg)) # {})
    => LET ps == ChosenParts(call.arg)
           d == ps[Min(ImageIndexes(ps))].data
       IN /\ ~ret.raised
          /\ ret.v.t = "bytes"
          /\ d.t = "bytes" => ret.v = d
          /\ d.t = "str"
             => /\ \A b \in SeqsUpTo(ByteValues, MaxBytes) :
                      d.v = b64encode(b) => ret.v.v = b
                /\ b64decode(d.v).raised => ret.v.v = encode_utf8(d.v)

C7_Witness ==
    /\ ExtractReturned
    /\ call.arg.parts = SomeParts(<< Part(TRUE, Text(b64encode(<<137, 0, 255>>))) >>)
    /\ ret.v = Bytes(<<137, 0, 255>>)

NoImageLine == Line("Error", "No image data returned", "", <<>>, <<>>)

\* C8: when generate returns None or empty bytes, the next step of the run
\* reports "No image data returned" and exits 1 without making a directory or
\* writing a file; the writer is never reached with an empty result; and a
\* Gemini response with no image data anywhere ends the run this way.
C8_EmptyResultFails ==
    /\ [][(mode = "run" /\ pc = "check" /\ ~Truthy(image_bytes))
           => /\ pc' = "exited" /\ exit_code' = 1
              /\ stderr' = <<NoImageLine>>
              /\ mkdirs' = 0 /\ dirs' = dirs
              /\ writes' = 0 /\ files' = <<>>]_vars
    /\ []((mode = "run" /\ pc \in {"mkdir", "write"}) => Truthy(image_bytes))
    /\ []((mode = "run" /\ (mkdirs > 0 \/ writes > 0 \/ files # <<>>))
             => Truthy(image_bytes))
    /\ []((/\ mode = "run" /\ pc = "exited"
           /\ provider.cls = "GeminiProvider"
           /\ DOMAIN response # {}
           /\ NoImageAnywhere(response))
          => /\ exit_code = 1
             /\ stderr = <<NoImageLine>>
             /\ mkdirs = 0 /\ writes = 0 /\ files = <<>>)

C8_Witness ==
    /\ mode = "run" /\ pc = "exited" /\ exit_code = 1
    /\ provider.cls = "GeminiProvider"
    /\ DOMAIN response # {}
    /\ response.parts = SomeParts(<<Part(TRUE, Bytes(<<>>))>>)
    /\ response.candidates = SomeCandidates(<<Candidate(TRUE, SomeParts(<<Part(FALSE, None)>>))>>)
    /\ stderr = <<NoImageLine>>
    /\ files = <<>> /\ mkdirs = 0

EndsWithPngAnyCase(p) ==
    /\ Len(p) >= 4
    /\ p[Len(p) - 3] = 46
    /\ p[Len(p) - 2] \in {112, 80}
    /\ p[Len(p) - 1] \in {110, 78}
    /\ p[Len(p)] \in {103, 71}

\* C9: ensure_png_path appends ".png" to a path that does not end in ".png"
\* in any letter case and returns a path that does unchanged; so its result
\* ends in ".png" in some letter case and applying it again changes nothing.
C9_EnsurePngPath ==
    (mode = "unit" /\ pc = "unit_ret" /\ call.fn = "ensure_png_path")
    => /\ ret.v = (IF EndsWithPngAnyCase(call.arg)
                   THEN call.arg
                   ELSE call.arg \o <<46, 112, 110, 103>>)
       /\ EndsWithPngAnyCase(ret.v)
       /\ ensure_png_path(ret.v) = ret.v

C9_Witness ==
    /\ mode = "unit" /\ pc = "unit_ret" /\ call.fn = "ensure_png_path"
    /\ call.arg = <<97, 46, 80, 110, 71>>
    /\ ret.v = <<97, 46, 80, 110, 71>>

\* C10: a run without --dry-run that exits 0 built one adapter, issued one
\* request and wrote one file, at the output path with ".png" appended unless
\* it ends in ".png" in some letter case, under directories that exist, holding
\* exactly the non-empty bytes the adapter returned (for OpenAI the bytes whose
\* base64 encoding is data[0].b64_json); and no directory is made and no file
\* written unless the adapter returned non-empty bytes from its one request.
C10_OneFileWithReturnedBytes ==
    /\ (mode = "run" /\ pc = "exited" /\ exit_code = 0 /\ ~argv.dry_run)
       => /\ Len(constructed) = 1 /\ Len(clients) = 1 /\ Len(netcalls) = 1
          /\ writes = 1 /\ Len(files) = 1 /\ mkdirs = 1
          /\ files[1].path = (IF EndsWithPngAnyCase(args.out)
                              THEN args.out
                              ELSE args.out \o <<46, 112, 110, 103>>)
          /\ \A i \in 1..Len(files[1].path) :
                files[1].path[i] = 47 => SubSeq(files[1].path, 1, i - 1) \in dirs
          /\ files[1].content # <<>>
          /\ files[1].content = image_bytes.v
          /\ IF provider.cls = "GeminiProvider"
             THEN /\ ImageIndexes(ChosenParts(response)) # {}
                  /\ Bytes(files[1].content) = _extract_image_bytes(response)
             ELSE \E b \in {ImgA, ImgB, ImgC} :
                     /\ response[1].v = b64encode(b)
                     /\ files[1].content = b
    /\ (mode = "run" /\ (mkdirs > 0 \/ writes > 0 \/ files # <<>>))
       => /\ Truthy(image_bytes)
          /\ Len(netcalls) = 1
          /\ pc \in {"write", "exited"}
          /\ Len(files) <= 1 /\ writes <= 1 /\ mkdirs = 1

C10_Witness ==
    /\ mode = "run" /\ pc = "exited" /\ exit_code = 0
    /\ provider.cls = "OpenAIProvider"
    /\ args.out = <<100, 47, 105, 109, 103>>
    /\ files = << [path |-> <<100, 47, 105, 109, 103, 46, 112, 110, 103>>,
                   content |-> <<137, 80>>] >>
    /\ <<100>> \in dirs

====
